---- MODULE Spec2Model ----
(***************************************************************************)
(* Model of the repository analyzer: analyzeRepository and its helpers     *)
(* (URL extraction, the depth-limited tree walker, the stats aggregator,   *)
(* the sampler), parseAnalysisResult of the narrative analyzer, and the     *)
(* RepoAnalyzer component that runs both (handleAnalyze, resetAnalysis).   *)
(*                                                                         *)
(* Strings are modelled as sequences of tokens.  A token is an atomic      *)
(* piece of text; the operators that model startsWith / includes /         *)
(* endsWith / regular expressions work on the token sequences.             *)
(***************************************************************************)
EXTENDS Integers, Sequences, FiniteSets, TLC

VARIABLES
    repoUrl,        \* the argument of analyzeRepository (token sequence)
    pc,             \* position of the run
    host,           \* what the repository host serves for this repository
    calls,          \* the remote calls performed so far, in order
    languages,      \* Object.keys(languages) of the run
    fileStructure,  \* result of analyzeFileStructure(owner, repo, '', 0)
    stats,          \* result of analyzeProjectStats
    technologies,   \* result of detectTechnologies
    sampleFiles,    \* result of getSampleFiles
    outcome,        \* how the run ended: [kind, message]
    analysisText,   \* the text handed to parseAnalysisResult
    analysisResult, \* how analyzeWithGemini ended: [kind, value, message]
    ui              \* the state of the RepoAnalyzer component

vars == <<repoUrl, pc, host, calls, languages, fileStructure, stats,
          technologies, sampleFiles, outcome, analysisText, analysisResult, ui>>

(***************************************************************************)
(* Bounds of the model.                                                    *)
(***************************************************************************)
MaxUrlLen == 5
HostDepth == 5
MaxTextLen == 4
MaxRuns == 2

Last(seq) == seq[Len(seq)]

Max(a, b) == IF a >= b THEN a ELSE b
Min(a, b) == IF a <= b THEN a ELSE b

RECURSIVE Concat(_)
Concat(ss) == IF ss = <<>> THEN <<>> ELSE Head(ss) \o Concat(Tail(ss))

(***************************************************************************)
(* URL extraction: repoUrl.match(/github\.com\/([^\/]+)\/([^\/]+)/)        *)
(***************************************************************************)
UrlTokens == {"github.com", "/", "x", ".git"}

RECURSIVE UrlsUpTo(_)
UrlsUpTo(n) ==
    IF n = 0 THEN {<<>>}
    ELSE LET shorter == UrlsUpTo(n - 1)
         IN  shorter \cup {Append(u, t) : u \in {s \in shorter : Len(s) = n - 1},
                                           t \in UrlTokens}

Urls == UrlsUpTo(MaxUrlLen)

\* Length of the longest run of tokens other than "/" that starts at index i.
RECURSIVE NonSlashRun(_, _)
NonSlashRun(s, i) ==
    IF i > Len(s) \/ s[i] = "/" THEN 0 ELSE 1 + NonSlashRun(s, i + 1)

\* The pattern matches with "github.com" at index i: "github.com" "/" then a
\* non-empty run without "/", a "/", and another non-empty run without "/".
MatchesAt(s, i) ==
    /\ i + 1 <= Len(s)
    /\ s[i] = "github.com"
    /\ s[i + 1] = "/"
    /\ LET n == NonSlashRun(s, i + 2)
       IN  /\ n >= 1
           /\ i + 2 + n <= Len(s)
           /\ s[i + 2 + n] = "/"
           /\ NonSlashRun(s, i + 3 + n) >= 1

\* A mutant of UrlMatch: the repo group may be empty ([^\/]* for [^\/]+).
UrlMatchLoose(s) ==
    LET hits == {i \in 1..Len(s) :
                    /\ i + 1 <= Len(s)
                    /\ s[i] = "github.com"
                    /\ s[i + 1] = "/"
                    /\ NonSlashRun(s, i + 2) >= 1
                    /\ i + 2 + NonSlashRun(s, i + 2) <= Len(s)}
    IN  IF hits = {} THEN [ok |-> FALSE]
        ELSE LET i == CHOOSE j \in hits : \A k \in hits : j <= k
                 n == NonSlashRun(s, i + 2)
                 m == NonSlashRun(s, i + 3 + n)
             IN  [ok |-> TRUE,
                  owner |-> SubSeq(s, i + 2, i + 1 + n),
                  repo |-> SubSeq(s, i + 3 + n, i + 2 + n + m)]

\* The leftmost match and its two groups, or [ok |-> FALSE] for null.
UrlMatch(s) ==
    LET hits == {i \in 1..Len(s) : MatchesAt(s, i)}
    IN  IF hits = {} THEN [ok |-> FALSE]
        ELSE LET i == CHOOSE j \in hits : \A k \in hits : j <= k
                 n == NonSlashRun(s, i + 2)
                 m == NonSlashRun(s, i + 3 + n)
             IN  [ok |-> TRUE,
                  owner |-> SubSeq(s, i + 2, i + 1 + n),
                  repo |-> SubSeq(s, i + 3 + n, i + 2 + n + m)]

\* repo.replace(/\.git$/, '')
CleanRepo(repo) ==
    IF Len(repo) >= 1 /\ repo[Len(repo)] = ".git"
    THEN SubSeq(repo, 1, Len(repo) - 1)
    ELSE repo

(***************************************************************************)
(* The repository host.  A name is a sequence of tokens, a path a sequence *)
(* of names (the segments between the slashes).  A response to a listing   *)
(* request is [status, entries]: status "ok" is a success status with a    *)
(* JSON array, "http" a non-success status, "neterr" a rejected fetch.     *)
(* A file entry carries the response to a request for its content.         *)
(***************************************************************************)
FileEntry(name, fetch, content) ==
    [name |-> name, type |-> "file", size |-> 1, fetch |-> fetch, content |-> content]

DirEntry(name, resp) ==
    [name |-> name, type |-> "dir", size |-> 0, resp |-> resp]

OtherEntry(name) ==
    [name |-> name, type |-> "symlink", size |-> 0]

B64(text) == <<"base64", text>>

OkListing(entries) == [status |-> "ok", entries |-> entries]

\* What lies below a directory the walker is expected to skip.
VendoredContent ==
    OkListing(<<FileEntry(<<"README.md">>, "ok", B64("vendored readme")),
                FileEntry(<<"lib", ".js">>, "ok", B64("lib")),
                DirEntry(<<"pkg">>,
                    OkListing(<<FileEntry(<<"package.json">>, "ok", B64("pkg"))>>))>>)

\* The name of the directory that leads from level k - 1 to level k.
LevelName(k) ==
    CASE k = 1 -> <<"src">>
      [] k = 2 -> <<"Component", "s">>
      [] k = 3 -> <<"page", "s">>
      [] k = 4 -> <<"app">>
      [] OTHER -> <<"deep">>

\* The shapes of a listing: each letter is one entry, in listing order.
Shapes ==
    { <<"C", "F", "D", "T">>,
      <<"C", "X", "D", "U", "B", "T">>,
      <<"N", "E", "D", "H", "C">>,
      <<"D", "L", "S", "P">> }

RECURSIVE HostListing(_, _, _, _, _, _)
HostEntry(kind, k, depthL, top, deep, failAt, failKind) ==
    CASE kind = "F" -> FileEntry(<<"index", ".ts">>, "ok", B64("code"))
      [] kind = "C" -> FileEntry(<<"README.md">>, "ok", B64("readme"))
      [] kind = "T" -> FileEntry(<<"tsconfig.json">>, "ok", B64("tsconfig"))
      [] kind = "X" -> FileEntry(<<"package.json">>, "http", B64("pkg"))
      [] kind = "U" -> FileEntry(<<"my-", "tsconfig.json">>, "ok", <<"garbage">>)
      [] kind = "P" -> FileEntry(<<"vite.config", ".ts">>, "neterr", B64("vite"))
      [] kind = "B" -> FileEntry(<<"Button", ".tsx">>, "ok", B64("button"))
      [] kind = "E" -> FileEntry(<<".", "env">>, "ok", B64("env"))
      [] kind = "N" -> DirEntry(<<"node_modules">>, VendoredContent)
      [] kind = "H" -> DirEntry(<<".", "git">>, VendoredContent)
      [] kind = "L" -> DirEntry(<<"node_modules", "2">>, VendoredContent)
      [] kind = "S" -> OtherEntry(<<"link">>)
      [] kind = "D" ->
            DirEntry(LevelName(k + 1),
                     IF k < depthL
                     THEN HostListing(k + 1, depthL, top, deep, failAt, failKind)
                     ELSE [status |-> IF k + 1 = failAt THEN failKind ELSE "ok",
                           entries |-> <<>>])

HostListing(k, depthL, top, deep, failAt, failKind) ==
    LET shape == IF k < 2 THEN top ELSE deep
    IN  [status |-> IF k = failAt THEN failKind ELSE "ok",
         entries |-> [i \in 1..Len(shape) |->
                        HostEntry(shape[i], k, depthL, top, deep, failAt, failKind)]]

FailKinds == {"http", "neterr"}

\* The hosts of the model: a chain of directories depthL levels deep, each
\* level listing the entries of a shape, with at most one failing listing.
Hosts ==
    { HostListing(0, depthL, top, deep, failAt, failKind) :
        depthL \in 0..HostDepth, top \in Shapes, deep \in Shapes,
        failAt \in -1..HostDepth, failKind \in FailKinds }

\* The entry of a host at a path (names are unique within a listing).
RECURSIVE HostLookup(_, _)
HostLookup(resp, path) ==
    LET hit == CHOOSE e \in {resp.entries[i] : i \in 1..Len(resp.entries)} :
                   e.name = Head(path)
    IN  IF Len(path) = 1 THEN hit ELSE HostLookup(hit.resp, Tail(path))

(***************************************************************************)
(* Tree walker: analyzeFileStructure(owner, repo, path, depth).            *)
(* The result is the returned array together with the listing requests     *)
(* made, in order.                                                         *)
(***************************************************************************)
MaxDepth == 3

StartsWithDot(name) == Len(name) >= 1 /\ name[1] = "."

\* A mutant of IsSkippedDir: only hidden directories are skipped.
IsSkippedDirHiddenOnly(name) == StartsWithDot(name)

\* item.name.startsWith('.') || item.name === 'node_modules'
IsSkippedDir(name) == StartsWithDot(name) \/ name = <<"node_modules">>

FileNode(item, path) ==
    [name |-> item.name, path |-> path, size |-> item.size, type |-> "file"]

DirNode(item, path, children) ==
    [name |-> item.name, path |-> path, type |-> "directory", children |-> children]

ListingCall(path, depth, result) ==
    [kind |-> "listing", path |-> path, depth |-> depth, result |-> result]

\* A walk yields the returned array, the requests made, and whether it ended
\* by an exception instead of a return.
NoWalk == [files |-> <<>>, calls |-> <<>>, thrown |-> FALSE]

\* A mutant of DepthExceeded: one more level is walked.
DepthExceededOffByOne(depth) == depth > MaxDepth + 1

\* if (depth > 3) return [];
DepthExceeded(depth) == depth > MaxDepth

\* A mutant of CatchListing: the exception leaves analyzeFileStructure.
CatchListingRethrow(r) == r

\* catch { return []; }
CatchListing(r) ==
    IF r.thrown THEN [files |-> <<>>, calls |-> r.calls, thrown |-> FALSE] ELSE r

RECURSIVE analyzeFileStructure(_, _, _)
RECURSIVE WalkItems(_, _, _)

\* for (const item of contents) { ... }
WalkItems(items, path, depth) ==
    IF items = <<>> THEN NoWalk
    ELSE LET item == Head(items)
             itemPath == Append(path, item.name)
         IN  IF item.type = "file"
             THEN LET rest == WalkItems(Tail(items), path, depth)
                  IN  [rest EXCEPT !.files = <<FileNode(item, itemPath)>> \o @]
             ELSE IF item.type = "dir" /\ ~IsSkippedDir(item.name)
             THEN LET sub == analyzeFileStructure(item.resp, itemPath, depth + 1)
                      rest == WalkItems(Tail(items), path, depth)
                  IN  IF sub.thrown THEN sub
                      ELSE [files |-> <<DirNode(item, itemPath, sub.files)>> \o rest.files,
                            calls |-> sub.calls \o rest.calls,
                            thrown |-> rest.thrown]
             ELSE WalkItems(Tail(items), path, depth)

\* The try block: the fetch, the status test, the loop, the return.
ListingBody(resp, path, depth) ==
    LET call == ListingCall(path, depth, resp.status)
    IN  IF resp.status = "neterr"
        THEN [files |-> <<>>, calls |-> <<call>>, thrown |-> TRUE]
        ELSE IF resp.status # "ok"
        THEN [files |-> <<>>, calls |-> <<call>>, thrown |-> FALSE]
        ELSE LET r == WalkItems(resp.entries, path, depth)
             IN  [r EXCEPT !.calls = <<call>> \o @]

analyzeFileStructure(resp, path, depth) ==
    IF DepthExceeded(depth) THEN NoWalk
    ELSE CatchListing(ListingBody(resp, path, depth))

(***************************************************************************)
(* Classifier: isComponent and isPage.                                     *)
(***************************************************************************)
\* toLowerCase / the i flag, on tokens.
Lower(tok) ==
    CASE tok = "Component" -> "component"
      [] tok = "Page" -> "page"
      [] tok = "Button" -> "button"
      [] tok = "README.md" -> "readme.md"
      [] OTHER -> tok

LowerName(name) == [i \in 1..Len(name) |-> Lower(name[i])]

\* The path holds "/" name "/" for one of the names: a whole segment that is
\* neither the first nor the last.
HasInnerSegment(path, names) ==
    \E i \in 2..(Len(path) - 1) : LowerName(path[i]) \in names

OptionalS(word) == {<<word>>, <<word, "s">>}

isComponent(fileName, filePath) ==
    /\ Len(fileName) >= 1
    /\ fileName[Len(fileName)] \in {".tsx", ".jsx", ".vue", ".svelte"}
    /\ HasInnerSegment(filePath,
           OptionalS("component") \cup {<<"ui">>} \cup OptionalS("widget")
               \cup {<<"shared">>})

isPage(fileName, filePath) ==
    \/ HasInnerSegment(filePath,
           OptionalS("page") \cup OptionalS("route") \cup OptionalS("view")
               \cup OptionalS("screen"))
    \/ Len(filePath) >= 2 /\ LowerName(filePath[1]) \in OptionalS("page")
    \/ /\ \E i \in 1..(Len(filePath) - 1) :
              LET seg == LowerName(filePath[i])
              IN  Len(seg) >= 1 /\ seg[Len(seg)] = "app"
       /\ Len(fileName) >= 1
       /\ Lower(fileName[Len(fileName)]) \in {".tsx", ".jsx", ".js", ".ts"}
    \/ \E i \in 1..Len(fileName) : Lower(fileName[i]) \in {"page", "route"}

(***************************************************************************)
(* Aggregator: analyzeProjectStats.                                        *)
(***************************************************************************)
NoStats == [totalFiles |-> 0, components |-> 0, pages |-> 0]

HasChildren(file) == "children" \in DOMAIN file

\* A mutant of CountFile: a component is counted without counting the file.
CountFileLost(file) ==
    [totalFiles |-> IF isComponent(file.name, file.path) THEN 0 ELSE 1,
     components |-> IF isComponent(file.name, file.path) THEN 1 ELSE 0,
     pages |-> IF isPage(file.name, file.path) THEN 1 ELSE 0]

\* What one file node adds to the three counters.
CountFile(file) ==
    [totalFiles |-> 1,
     components |-> IF isComponent(file.name, file.path) THEN 1 ELSE 0,
     pages |-> IF isPage(file.name, file.path) THEN 1 ELSE 0]

AddStats(a, b) ==
    [totalFiles |-> a.totalFiles + b.totalFiles,
     components |-> a.components + b.components,
     pages |-> a.pages + b.pages]

RECURSIVE countFiles(_)
countFiles(files) ==
    IF files = <<>> THEN NoStats
    ELSE LET file == Head(files)
             here == IF file.type = "file" THEN CountFile(file)
                     ELSE IF HasChildren(file) THEN countFiles(file.children)
                     ELSE NoStats
         IN  AddStats(here, countFiles(Tail(files)))

analyzeProjectStats(tree) == countFiles(tree)

(***************************************************************************)
(* detectTechnologies: the declared languages, then one tag per marker     *)
(* found in a file name (or in the path, for graphql), without duplicates. *)
(***************************************************************************)
\* String.prototype.includes on token sequences.
Includes(name, pat) ==
    \E i \in 1..(Len(name) - Len(pat) + 1) : SubSeq(name, i, i + Len(pat) - 1) = pat

TechMarkers ==
    << <<"package.json", "Node.js">>, <<"next.config", "Next.js">>,
       <<"nuxt.config", "Nuxt.js">>, <<"vue.config", "Vue.js">>,
       <<"angular.json", "Angular">>, <<"svelte.config", "Svelte">>,
       <<"vite.config", "Vite">>, <<"webpack.config", "Webpack">>,
       <<"tailwind.config", "Tailwind CSS">>, <<"postcss.config", "PostCSS">>,
       <<"tsconfig.json", "TypeScript">>, <<"jest.config", "Jest">>,
       <<"cypress.config", "Cypress">>, <<"playwright.config", "Playwright">>,
       <<"docker", "Docker">>, <<"docker-compose", "Docker Compose">>,
       <<"env", "Environment Variables">>, <<"prisma", "Prisma">>,
       <<"supabase", "Supabase">>, <<"firebase", "Firebase">>,
       <<"eslint", "ESLint">>, <<"prettier", "Prettier">>,
       <<"husky", "Husky">>, <<"lint-staged", "Lint Staged">> >>

\* The marker as a token sequence ('.env' is the tokens "." "env").
MarkerTokens(marker) == IF marker = "env" THEN <<".", "env">> ELSE <<marker>>

\* Set.add on the insertion-ordered set.
SetAdd(seq, x) ==
    IF \E i \in 1..Len(seq) : seq[i] = x THEN seq ELSE Append(seq, x)

RECURSIVE SetAddAll(_, _)
SetAddAll(seq, xs) ==
    IF xs = <<>> THEN seq ELSE SetAddAll(SetAdd(seq, Head(xs)), Tail(xs))

\* The tags of one file, in the order of the tests.
FileTags(file) ==
    LET fileName == LowerName(file.name)
        hit == [i \in 1..Len(TechMarkers) |->
                   IF Includes(fileName, MarkerTokens(TechMarkers[i][1]))
                   THEN <<TechMarkers[i][2]>> ELSE <<>>]
        graphql == IF \E i \in 1..Len(file.path) :
                         Includes(LowerName(file.path[i]), <<"graphql">>)
                   THEN <<"GraphQL">> ELSE <<>>
    IN  Concat(SubSeq(hit, 1, 20)) \o graphql \o Concat(SubSeq(hit, 21, Len(hit)))

RECURSIVE analyzeTech(_, _)
analyzeTech(files, tags) ==
    IF files = <<>> THEN tags
    ELSE LET file == Head(files)
             here == IF file.type = "file"
                     THEN SetAddAll(tags, FileTags(file))
                     ELSE IF HasChildren(file)
                     THEN analyzeTech(file.children, tags)
                     ELSE tags
         IN  analyzeTech(Tail(files), here)

detectTechnologies(tree, langs) == analyzeTech(tree, SetAddAll(<<>>, langs))

(***************************************************************************)
(* Sampler: getSampleFiles(owner, repo, fileStructure).                    *)
(***************************************************************************)
SampleLimit == 5

targetFiles ==
    << <<"package.json">>, <<"README.md">>, <<"tsconfig.json">>,
       <<"next.config", ".js">>, <<"vite.config", ".ts">> >>

\* file.type === 'file' && targetFiles.some(target => file.name.includes(target))
IsCandidate(file) ==
    /\ file.type = "file"
    /\ \E t \in 1..Len(targetFiles) : Includes(file.name, targetFiles[t])

SampleCall(path, result) ==
    [kind |-> "sample", path |-> path, depth |-> 0, result |-> result]

\* atob(data.content) succeeds on base64 text only.
Decodable(content) == Len(content) = 2 /\ content[1] = "base64"

atob(content) == content[2]

NoSamples == [files |-> <<>>, calls |-> <<>>, thrown |-> FALSE]

\* The try block of findAndFetchFiles for one candidate: the fetch, and on a
\* success status the decoding and the push.
SampleBody(h, file) ==
    LET entry == HostLookup(h, file.path)
        call == SampleCall(file.path, entry.fetch)
    IN  IF entry.fetch = "neterr" \/ (entry.fetch = "ok" /\ ~Decodable(entry.content))
        THEN [files |-> <<>>, calls |-> <<call>>, thrown |-> TRUE]
        ELSE IF entry.fetch = "ok"
        THEN [files |-> <<[path |-> file.path, content |-> atob(entry.content)]>>,
              calls |-> <<call>>, thrown |-> FALSE]
        ELSE [files |-> <<>>, calls |-> <<call>>, thrown |-> FALSE]

\* A mutant of CatchSample: the exception leaves findAndFetchFiles.
CatchSampleRethrow(r) == r

\* catch { /* Ignore errors for individual files */ }
CatchSample(r) == [r EXCEPT !.thrown = FALSE]

RECURSIVE findAndFetchFiles(_, _)
findAndFetchFiles(h, files) ==
    IF files = <<>> THEN NoSamples
    ELSE LET file == Head(files)
             here == IF IsCandidate(file) THEN CatchSample(SampleBody(h, file))
                     ELSE IF HasChildren(file) THEN findAndFetchFiles(h, file.children)
                     ELSE NoSamples
         IN  IF here.thrown THEN here
             ELSE LET rest == findAndFetchFiles(h, Tail(files))
                  IN  [files |-> here.files \o rest.files,
                       calls |-> here.calls \o rest.calls,
                       thrown |-> rest.thrown]

\* A mutant of Slice: the last entries are kept instead of the first.
SliceLast(seq, n) == SubSeq(seq, Max(1, Len(seq) - n + 1), Len(seq))

\* sampleFiles.slice(0, n)
Slice(seq, n) == SubSeq(seq, 1, Min(n, Len(seq)))

getSampleFiles(h, tree) ==
    LET found == findAndFetchFiles(h, tree)
    IN  [found EXCEPT !.files = Slice(@, SampleLimit)]

(***************************************************************************)
(* JavaScript values, as far as parseAnalysisResult tells them apart.      *)
(* Numbers are kept in tenths.                                             *)
(***************************************************************************)
Undefined == [kind |-> "undefined", val |-> 0]
Str(text) == [kind |-> "string", val |-> text]
Num(n) == [kind |-> "number", val |-> 10 * n]
Arr(items) == [kind |-> "array", val |-> items]
Obj(fields) == [kind |-> "object", val |-> fields]
NaN == [kind |-> "NaN", val |-> 0]

\* ToBoolean
Truthy(v) ==
    CASE v.kind = "undefined" -> FALSE
      [] v.kind = "NaN" -> FALSE
      [] v.kind = "string" -> v.val # ""
      [] v.kind = "number" -> v.val # 0
      [] OTHER -> TRUE

\* a || b
Or(a, b) == IF Truthy(a) THEN a ELSE b

\* v?.key
Get(v, key) ==
    IF v.kind = "object" /\ key \in DOMAIN v.val THEN v.val[key] ELSE Undefined

\* ToNumber
ToNumber(v) ==
    CASE v.kind = "number" -> v
      [] v.kind = "array" /\ v.val = <<>> -> Num(0)
      [] v.kind = "string" /\ v.val = "" -> Num(0)
      [] OTHER -> NaN   \* no other string or array of the model is numeric

MathMin(a, b) ==
    IF ToNumber(a).kind = "NaN" \/ ToNumber(b).kind = "NaN" THEN NaN
    ELSE IF ToNumber(a).val <= ToNumber(b).val THEN ToNumber(a) ELSE ToNumber(b)

MathMax(a, b) ==
    IF ToNumber(a).kind = "NaN" \/ ToNumber(b).kind = "NaN" THEN NaN
    ELSE IF ToNumber(a).val >= ToNumber(b).val THEN ToNumber(a) ELSE ToNumber(b)

(***************************************************************************)
(* The response text: a sequence of tokens, each a brace, a comma, a piece *)
(* of prose, or one whole member ("key": value) of a JSON object.          *)
(***************************************************************************)
Members ==
    << <<"'summary':'S'", "summary", Str("S")>>,
       <<"'summary':''", "summary", Str("")>>,
       <<"'features':['f']", "features", Arr(<<"f">>)>>,
       <<"'features':'f'", "features", Str("f")>>,
       <<"'insights':{'complexity':0}", "insights", Obj([complexity |-> Num(0)])>>,
       <<"'insights':{'complexity':15}", "insights", Obj([complexity |-> Num(15)])>>,
       <<"'insights':{'complexity':7}", "insights", Obj([complexity |-> Num(7)])>>,
       <<"'insights':{'complexity':-3}", "insights", Obj([complexity |-> Num(-3)])>>,
       <<"'insights':{'codeQuality':'Q'}", "insights", Obj([codeQuality |-> Str("Q")])>>,
       <<"'insights':{'complexity':'high'}", "insights", Obj([complexity |-> Str("high")])>> >>

MemberTokens == {Members[i][1] : i \in 1..Len(Members)}

MemberOf(tok) == Members[CHOOSE i \in 1..Len(Members) : Members[i][1] = tok]

TextTokens == {"{", "}", ",", "prose"} \cup MemberTokens

RECURSIVE TextsUpTo(_)
TextsUpTo(n) ==
    IF n = 0 THEN {<<>>}
    ELSE LET shorter == TextsUpTo(n - 1)
         IN  shorter \cup {Append(u, t) : u \in {s \in shorter : Len(s) = n - 1},
                                           t \in TextTokens}

Texts == TextsUpTo(MaxTextLen)

\* A mutant of JsonSpan: the span ends at the first closing brace.
JsonSpanLazy(text) ==
    LET opens == {i \in 1..Len(text) : text[i] = "{"}
        first == CHOOSE i \in opens : \A j \in opens : i <= j
        closes == {i \in 1..Len(text) : text[i] = "}" /\ i > first}
        end == CHOOSE i \in closes : \A j \in closes : i <= j
    IN  IF opens = {} THEN [found |-> FALSE, span |-> <<>>]
        ELSE IF closes = {} THEN [found |-> FALSE, span |-> <<>>]
        ELSE [found |-> TRUE, span |-> SubSeq(text, first, end)]

\* analysisText.match(/\{[\s\S]*\}/): from the first "{" to the last "}".
JsonSpan(text) ==
    LET opens == {i \in 1..Len(text) : text[i] = "{"}
        first == CHOOSE i \in opens : \A j \in opens : i <= j
        closes == {i \in 1..Len(text) : text[i] = "}" /\ i > first}
        last == CHOOSE i \in closes : \A j \in closes : i >= j
    IN  IF opens = {} THEN [found |-> FALSE, span |-> <<>>]
        ELSE IF closes = {} THEN [found |-> FALSE, span |-> <<>>]
        ELSE [found |-> TRUE, span |-> SubSeq(text, first, last)]

\* The members of an object: none, or members separated by single commas.
ValidMembers(inner) ==
    \/ inner = <<>>
    \/ /\ Len(inner) % 2 = 1
       /\ \A i \in 1..Len(inner) :
             IF i % 2 = 1 THEN inner[i] \in MemberTokens ELSE inner[i] = ","

\* JSON.parse(jsonString) of a text that starts with "{": the object, or a
\* SyntaxError.  A repeated key keeps its last value.
JsonParse(span) ==
    IF /\ Len(span) >= 2
       /\ span[1] = "{"
       /\ span[Len(span)] = "}"
       /\ ValidMembers(SubSeq(span, 2, Len(span) - 1))
    THEN LET at == {i \in 2..(Len(span) - 1) : span[i] \in MemberTokens}
             keys == {MemberOf(span[i])[2] : i \in at}
             lastOf(k) == CHOOSE i \in at :
                              /\ MemberOf(span[i])[2] = k
                              /\ \A j \in at : MemberOf(span[j])[2] = k => j <= i
         IN  [ok |-> TRUE, value |-> Obj([k \in keys |-> MemberOf(span[lastOf(k)])[3]])]
    ELSE [ok |-> FALSE, value |-> Undefined]

(***************************************************************************)
(* parseAnalysisResult(analysisText)                                       *)
(***************************************************************************)
IsArray(v) == v.kind = "array"

\* A mutant of Complexity: the lower bound of the clamp is 0.
ComplexityFromZero(x) == MathMax(Num(0), MathMin(Num(10), Or(x, Num(5))))

\* Math.max(1, Math.min(10, parsed.insights?.complexity || 5))
Complexity(x) == MathMax(Num(1), MathMin(Num(10), Or(x, Num(5))))

\* The object returned when the text was parsed.
Validated(parsed) ==
    [summary |-> Or(Get(parsed, "summary"), Str("No summary available")),
     features |-> IF IsArray(Get(parsed, "features"))
                  THEN Get(parsed, "features") ELSE Arr(<<>>),
     architecture |->
        [pattern |-> Or(Get(Get(parsed, "architecture"), "pattern"), Str("Unknown")),
         components |-> IF IsArray(Get(Get(parsed, "architecture"), "components"))
                        THEN Get(Get(parsed, "architecture"), "components")
                        ELSE Arr(<<>>)],
     insights |->
        [codeQuality |-> Or(Get(Get(parsed, "insights"), "codeQuality"),
                            Str("No assessment available")),
         complexity |-> Complexity(Get(Get(parsed, "insights"), "complexity")),
         performance |-> Or(Get(Get(parsed, "insights"), "performance"),
                            Str("No performance notes available"))],
     recommendations |-> IF IsArray(Get(parsed, "recommendations"))
                         THEN Get(parsed, "recommendations") ELSE Arr(<<>>)]

\* The object returned by the catch block.
Fallback ==
    [summary |-> Str("Analysis completed but could not parse detailed results. The repository appears to be a software project with various files and components."),
     features |-> Arr(<<"Code organization", "File structure", "Documentation">>),
     architecture |->
        [pattern |-> Str("Standard project structure"),
         components |-> Arr(<<"Source files", "Configuration files", "Documentation">>)],
     insights |->
        [codeQuality |-> Str("Repository structure suggests organized development practices."),
         complexity |-> Num(5),
         performance |-> Str("Performance characteristics depend on the specific implementation details.")],
     recommendations |->
        Arr(<<"Consider adding more documentation", "Ensure proper testing coverage",
              "Optimize build configuration if applicable">>)]

\* The try block: the match, JSON.parse, the validated object.
ParseBody(text) ==
    LET m == JsonSpan(text)
    IN  IF ~m.found THEN [thrown |-> TRUE, value |-> Undefined]
        ELSE IF ~JsonParse(m.span).ok THEN [thrown |-> TRUE, value |-> Undefined]
        ELSE [thrown |-> FALSE, value |-> Validated(JsonParse(m.span).value)]

\* A mutant of CatchParse: the error leaves parseAnalysisResult.
CatchParseRethrow(r) == r

\* catch (error) { return { ...fallback... } }
CatchParse(r) == IF r.thrown THEN [thrown |-> FALSE, value |-> Fallback] ELSE r

parseAnalysisResult(text) == CatchParse(ParseBody(text))

(***************************************************************************)
(* analyzeRepository(repoUrl), one action per await.                       *)
(***************************************************************************)
InvalidUrlMessage == <<"Invalid GitHub repository URL">>
NotFoundMessage == <<"Repository not found or not accessible">>
ContentsMessage == <<"Failed to fetch repository contents">>
NetworkMessage == <<"Failed to fetch">>
JsonMessage == <<"Unexpected token in JSON">>

\* The catch block of analyzeRepository.
Wrapped(message) == <<"Failed to analyze repository: ">> \o message

NoOutcome == [kind |-> "none", message |-> <<>>]
Thrown(message) == [kind |-> "error", message |-> message]
Returned == [kind |-> "snapshot", message |-> <<>>]

RemoteCall(kind, result) ==
    [kind |-> kind, path |-> <<>>, depth |-> 0, result |-> result]

\* The outcomes of one fetch + response.json(): a success status with a JSON
\* body, a non-success status, a rejected fetch, a success status whose body
\* is not JSON.
FetchOutcomes == {"ok", "http", "neterr", "badjson"}

\* The key lists a languages response may carry.
LanguageKeys == {<<>>, <<"TypeScript">>, <<"TypeScript", "CSS">>}

\* The hosts the whole run is explored with.
RunHosts ==
    { HostListing(0, depthL, top, top, failAt, "http") :
        depthL \in {1, HostDepth}, top \in Shapes, failAt \in {-1, 0, 2} }
      \cup { HostListing(0, HostDepth, top, top, 1, "neterr") : top \in Shapes }

Unset == "none"

NoAnalysis == [kind |-> "none", value |-> Undefined, message |-> <<>>]

(***************************************************************************)
(* The state of the RepoAnalyzer component (its useState cells; repoUrl is *)
(* the variable above).  A snapshot or an analysis held by the component   *)
(* is identified by the handleAnalyze run that produced it; run 0 is null. *)
(* The empty sequence is the null error.  toast is the last toast shown.   *)
(***************************************************************************)
NoData == [run |-> 0]
NoResult == [run |-> 0, value |-> Undefined]
NoError == <<>>
Toast(kind, message) == [kind |-> kind, message |-> message]
NoToast == Toast("none", <<>>)

UiInit ==
    [geminiApiKey |-> <<>>,
     isAnalyzing |-> FALSE,
     analysisProgress |-> 0,
     repoData |-> NoData,
     analysisResult |-> NoResult,
     error |-> NoError,
     toast |-> NoToast,
     run |-> 0]

RunUnchanged == UNCHANGED <<repoUrl, analysisText, analysisResult, ui>>

\* repoUrl.match(...); if (!match) throw new Error('Invalid GitHub repository URL')
ParseUrl ==
    /\ pc = "start"
    /\ IF UrlMatch(repoUrl).ok
       THEN pc' = "metadata" /\ outcome' = outcome
       ELSE pc' = "failed" /\ outcome' = Thrown(InvalidUrlMessage)
    /\ UNCHANGED <<host, calls, languages, fileStructure, stats, technologies,
                   sampleFiles>>
    /\ RunUnchanged

Abort(message) ==
    /\ pc' = "failed"
    /\ outcome' = Thrown(Wrapped(message))

\* fetch(`https://api.github.com/repos/${owner}/${cleanRepo}`)
FetchMetadata ==
    /\ pc = "metadata"
    /\ \E r \in FetchOutcomes :
          /\ calls' = Append(calls, RemoteCall("metadata", r))
          /\ CASE r = "ok" ->
                  /\ pc' = "contents"
                  /\ outcome' = outcome
                  /\ \E h \in RunHosts : host' = h
            [] r = "http" -> Abort(NotFoundMessage) /\ host' = host
            [] r = "neterr" -> Abort(NetworkMessage) /\ host' = host
            [] OTHER -> Abort(JsonMessage) /\ host' = host
    /\ UNCHANGED <<languages, fileStructure, stats, technologies, sampleFiles>>
    /\ RunUnchanged

\* A mutant of FetchContents: the root contents are not requested.
FetchContentsSkipped ==
    /\ pc = "contents"
    /\ pc' = "languages"
    /\ UNCHANGED <<host, calls, languages, fileStructure, stats, technologies,
                   sampleFiles, outcome>>
    /\ RunUnchanged

\* fetch(`https://api.github.com/repos/${owner}/${cleanRepo}/contents`)
FetchContents ==
    /\ pc = "contents"
    /\ \E r \in FetchOutcomes :
          /\ calls' = Append(calls, RemoteCall("contents", r))
          /\ CASE r = "ok" -> pc' = "languages" /\ outcome' = outcome
            [] r = "http" -> Abort(ContentsMessage)
            [] r = "neterr" -> Abort(NetworkMessage)
            [] OTHER -> Abort(JsonMessage)
    /\ UNCHANGED <<host, languages, fileStructure, stats, technologies, sampleFiles>>
    /\ RunUnchanged

\* fetch(`https://api.github.com/repos/${owner}/${cleanRepo}/languages`)
\* languagesResponse.ok ? await languagesResponse.json() : {}
FetchLanguages ==
    /\ pc = "languages"
    /\ \E r \in FetchOutcomes :
          /\ calls' = Append(calls, RemoteCall("languages", r))
          /\ CASE r = "ok" ->
                  /\ pc' = "walk"
                  /\ outcome' = outcome
                  /\ \E keys \in LanguageKeys : languages' = keys
            [] r = "http" ->
                  /\ pc' = "walk"
                  /\ outcome' = outcome
                  /\ languages' = <<>>
            [] r = "neterr" -> Abort(NetworkMessage) /\ languages' = languages
            [] OTHER -> Abort(JsonMessage) /\ languages' = languages
    /\ UNCHANGED <<host, fileStructure, stats, technologies, sampleFiles>>
    /\ RunUnchanged

\* analyzeFileStructure(owner, cleanRepo, '', 0), then analyzeProjectStats and
\* detectTechnologies, which run before the next await.
Walk ==
    /\ pc = "walk"
    /\ LET walked == analyzeFileStructure(host, <<>>, 0)
       IN  /\ calls' = calls \o walked.calls
           /\ IF walked.thrown
              THEN /\ Abort(NetworkMessage)
                   /\ UNCHANGED <<fileStructure, stats, technologies>>
              ELSE /\ pc' = "samples"
                   /\ outcome' = outcome
                   /\ fileStructure' = walked.files
                   /\ stats' = analyzeProjectStats(walked.files)
                   /\ technologies' = detectTechnologies(walked.files, languages)
    /\ UNCHANGED <<host, languages, sampleFiles>>
    /\ RunUnchanged

\* getSampleFiles(owner, cleanRepo, fileStructure), then the return.
Samples ==
    /\ pc = "samples"
    /\ LET sampled == getSampleFiles(host, fileStructure)
       IN  /\ calls' = calls \o sampled.calls
           /\ IF sampled.thrown
              THEN Abort(NetworkMessage) /\ sampleFiles' = sampleFiles
              ELSE /\ pc' = "done"
                   /\ outcome' = Returned
                   /\ sampleFiles' = sampled.files
    /\ UNCHANGED <<host, languages, fileStructure, stats, technologies>>
    /\ RunUnchanged

Init ==
    /\ repoUrl \in Urls
    /\ pc = "start"
    /\ host = Unset
    /\ calls = <<>>
    /\ languages = <<>>
    /\ fileStructure = <<>>
    /\ stats = Unset
    /\ technologies = <<>>
    /\ sampleFiles = <<>>
    /\ outcome = NoOutcome
    /\ analysisText = <<>>
    /\ analysisResult = NoAnalysis
    /\ ui = UiInit

Next ==
    \/ ParseUrl
    \/ FetchMetadata
    \/ FetchContents
    \/ FetchLanguages
    \/ Walk
    \/ Samples

Spec == Init /\ [][Next]_vars

(***************************************************************************)
(* The walker, the aggregator and the sampler on every host of the model.  *)
(***************************************************************************)
InitWalk ==
    /\ repoUrl = <<"github.com", "/", "x", "/", "x">>
    /\ pc = "walk"
    /\ host \in Hosts
    /\ calls = <<>>
    /\ languages \in LanguageKeys
    /\ fileStructure = <<>>
    /\ stats = Unset
    /\ technologies = <<>>
    /\ sampleFiles = <<>>
    /\ outcome = NoOutcome
    /\ analysisText = <<>>
    /\ analysisResult = NoAnalysis
    /\ ui = UiInit

NextWalk ==
    \/ Walk
    \/ Samples

SpecWalk == InitWalk /\ [][NextWalk]_vars

(***************************************************************************)
(* analyzeWithGemini(repoData, apiKey) on every response text of the model.*)
(***************************************************************************)
\* What the request to the generative service ends in: a rejected fetch, a
\* non-success status, a payload without candidates[0].content, or a payload
\* whose text is analysisText.
GeminiOutcomes == {"neterr", "400", "403", "429", "500", "nocandidates", "ok"}

GeminiMessage(r) ==
    CASE r = "400" -> <<"Invalid API key or request format. Please check your Gemini API key.">>
      [] r = "403" -> <<"API key does not have permission to access Gemini API.">>
      [] r = "429" -> <<"Rate limit exceeded. Please try again later.">>
      [] r = "500" -> <<"Gemini API error (", "500", "): ", "Unknown error">>
      [] r = "nocandidates" -> <<"Invalid response format from Gemini API">>
      [] OTHER -> NetworkMessage

AnalysisThrown(message) == [kind |-> "error", value |-> Undefined, message |-> message]
AnalysisReturned(value) == [kind |-> "result", value |-> value, message |-> <<>>]

AnalyzeWithGemini ==
    /\ pc = "gemini"
    /\ \E r \in GeminiOutcomes :
          /\ calls' = Append(calls, RemoteCall("gemini", r))
          /\ IF r = "ok"
             THEN LET parsed == parseAnalysisResult(analysisText)
                  IN  IF parsed.thrown
                      THEN /\ pc' = "failed"
                           /\ analysisResult' = AnalysisThrown(<<"SyntaxError">>)
                      ELSE /\ pc' = "analyzed"
                           /\ analysisResult' = AnalysisReturned(parsed.value)
             ELSE /\ pc' = "failed"
                  /\ analysisResult' = AnalysisThrown(GeminiMessage(r))
    /\ UNCHANGED <<repoUrl, host, languages, fileStructure, stats, technologies,
                   sampleFiles, outcome, analysisText, ui>>

InitParse ==
    /\ repoUrl = <<"github.com", "/", "x", "/", "x">>
    /\ pc = "gemini"
    /\ host = Unset
    /\ calls = <<>>
    /\ languages = <<>>
    /\ fileStructure = <<>>
    /\ stats = Unset
    /\ technologies = <<>>
    /\ sampleFiles = <<>>
    /\ outcome = Returned
    /\ analysisText \in Texts
    /\ analysisResult = NoAnalysis
    /\ ui = UiInit

NextParse == AnalyzeWithGemini

SpecParse == InitParse /\ [][NextParse]_vars

\* The text handed to parseAnalysisResult was parsed into an object.
ParsedObject == JsonParse(JsonSpan(analysisText).span).value

TextParses == JsonSpan(analysisText).found /\ JsonParse(JsonSpan(analysisText).span).ok

Answered == pc # "gemini" /\ Last(calls).kind = "gemini" /\ Last(calls).result = "ok"

ParsedComplexity == Get(Get(ParsedObject, "insights"), "complexity")

ReturnedComplexity == analysisResult.value.insights.complexity

\* C2 as stated: a parsed complexity of 0 gives 1, of 15 gives 10, and a
\* missing one gives 5.
C2_ComplexityClamping ==
    (Answered /\ TextParses /\ analysisResult.kind = "result") =>
        /\ ParsedComplexity = Num(0) => ReturnedComplexity = Num(1)
        /\ ParsedComplexity = Num(15) => ReturnedComplexity = Num(10)
        /\ ParsedComplexity = Undefined => ReturnedComplexity = Num(5)

\* The number of "{" minus the number of "}" among text[i..j].
RECURSIVE BraceDepth(_, _, _)
BraceDepth(text, i, j) ==
    IF j < i THEN 0
    ELSE BraceDepth(text, i, j - 1)
             + (IF text[j] = "{" THEN 1 ELSE IF text[j] = "}" THEN -1 ELSE 0)

\* The first balanced {...} span of a text: it starts at the leftmost "{"
\* that has a matching "}" and ends at that "}".
BalancedSpan(text) ==
    LET closeOf(i) == {j \in i..Len(text) :
                          /\ BraceDepth(text, i, j) = 0
                          /\ \A k \in i..(j - 1) : BraceDepth(text, i, k) > 0}
        starts == {i \in 1..Len(text) : text[i] = "{" /\ closeOf(i) # {}}
        first == CHOOSE i \in starts : \A k \in starts : i <= k
    IN  IF starts = {} THEN [found |-> FALSE, span |-> <<>>]
        ELSE [found |-> TRUE,
              span |-> SubSeq(text, first, CHOOSE j \in closeOf(first) : TRUE)]

\* C11 as stated: when the first balanced {...} span of the text is a valid
\* JSON object, the result is built from that object, whatever surrounds it.
C11_FirstBalancedSpanParsed ==
    (Answered /\ BalancedSpan(analysisText).found
              /\ JsonParse(BalancedSpan(analysisText).span).ok)
        => /\ analysisResult.kind = "result"
           /\ analysisResult.value =
                  Validated(JsonParse(BalancedSpan(analysisText).span).value)


Present(v) == v.kind # "undefined"

\* C12 as stated: every returned AnalysisResult has its four texts, its three
\* sequences, and a complexity that is an integer between 1 and 10.
C12_FullyPopulated ==
    (Answered /\ analysisResult.kind = "result") =>
        LET res == analysisResult.value
        IN  /\ Present(res.summary)
            /\ Present(res.architecture.pattern)
            /\ Present(res.insights.codeQuality)
            /\ Present(res.insights.performance)
            /\ res.features.kind = "array"
            /\ res.architecture.components.kind = "array"
            /\ res.recommendations.kind = "array"
            /\ res.insights.complexity.kind = "number"
            /\ res.insights.complexity.val % 10 = 0
            /\ res.insights.complexity.val \in 10..100


\* The text has no opening brace followed later by a closing brace.
NoBraceSpan(text) ==
    ~\E i, j \in 1..Len(text) : i < j /\ text[i] = "{" /\ text[j] = "}"

\* C10: a text without a {...} span, or whose span does not parse, yields the
\* fixed fallback result (complexity 5, features and recommendations not
\* empty), and analyzeWithGemini returns it instead of throwing.
C10_NarrativeFallback ==
    (Answered /\ (NoBraceSpan(analysisText) \/ ~TextParses)) =>
        /\ pc = "analyzed"
        /\ analysisResult.kind = "result"
        /\ analysisResult.value = Fallback
        /\ analysisResult.value.insights.complexity = Num(5)
        /\ analysisResult.value.features.val # <<>>
        /\ analysisResult.value.recommendations.val # <<>>

\* The fallback returned for a text whose brace span is not JSON.
C10_Witness ==
    /\ Answered
    /\ pc = "analyzed"
    /\ ~NoBraceSpan(analysisText)
    /\ ~TextParses
    /\ analysisResult.value = Fallback

(***************************************************************************)
(* Notions the properties are stated with.                                 *)
(***************************************************************************)
\* Every node of a tree, parents before children, siblings in order.
RECURSIVE PreOrder(_)
PreOrder(tree) ==
    IF tree = <<>> THEN <<>>
    ELSE LET n == Head(tree)
         IN  <<n>> \o (IF n.type = "directory" THEN PreOrder(n.children) ELSE <<>>)
                  \o PreOrder(Tail(tree))

IsFile(n) == n.type = "file"
IsDirectory(n) == n.type = "directory"

Walked == pc \in {"samples", "done"}

FailedCalls(kinds) ==
    {i \in 1..Len(calls) : calls[i].kind \in kinds /\ calls[i].result # "ok"}

\* C1: a URL without a match of the owner/repo pattern makes the run fail with
\* the invalid-URL error, and no remote call has been made.
C1_InvalidUrlBeforeNetwork ==
    (pc # "start" /\ \A i \in 1..Len(repoUrl) : ~MatchesAt(repoUrl, i))
        => /\ pc = "failed"
           /\ outcome = Thrown(InvalidUrlMessage)
           /\ calls = <<>>

\* A rejected URL that does name the host and an owner, but no repository.
C1_Witness ==
    /\ pc = "failed"
    /\ outcome = Thrown(InvalidUrlMessage)
    /\ calls = <<>>
    /\ Len(repoUrl) >= 4
    /\ SubSeq(repoUrl, 1, 4) = <<"github.com", "/", "x", "/">>

\* C3 as stated: after the metadata fetch succeeded, no failed listing fetch
\* (the root contents fetch included) and no failed sample fetch aborts the run.
C3_ListingFailureNeverAborts ==
    (pc = "failed" /\ calls # <<>>)
        => Last(calls).kind \notin {"contents", "listing", "sample"}

\* C3 amended: no failure of a listing fetch of the tree walker or of a
\* sample-content fetch aborts the run (an aborted run has made no such
\* fetch), and a run that reaches the tree walk returns a snapshot.
C3_WalkerAndSamplerNeverAbort ==
    /\ pc = "failed" =>
          /\ outcome.kind = "error"
          /\ \A i \in 1..Len(calls) : calls[i].kind \notin {"listing", "sample"}
    /\ pc = "done" => outcome = Returned

\* A returned snapshot although a walker listing and a sample fetch failed.
C3_Witness ==
    /\ pc = "done"
    /\ outcome = Returned
    /\ FailedCalls({"listing"}) # {}
    /\ FailedCalls({"sample"}) # {}
    /\ fileStructure # <<>>

\* C4 as stated: however the languages fetch fails, the run does not abort and
\* the language list is empty.
C4_LanguagesBestEffort ==
    FailedCalls({"languages"}) # {} => (pc # "failed" /\ languages = <<>>)

\* The candidate files of a tree, in pre-order.
Candidates(tree) ==
    SelectSeq(PreOrder(tree),
              LAMBDA n : /\ IsFile(n)
                         /\ \E t \in 1..Len(targetFiles) : Includes(n.name, targetFiles[t]))

\* The content of the candidate was fetched and decoded.
Fetched(n) ==
    LET entry == HostLookup(host, n.path)
    IN  entry.fetch = "ok" /\ entry.content[1] = "base64"

Paths(nodes) == [i \in 1..Len(nodes) |-> nodes[i].path]

FirstFive(seq) == SubSeq(seq, 1, IF Len(seq) < 5 THEN Len(seq) ELSE 5)

\* C5 as stated: the samples are the first five candidates in pre-order.
C5_FirstFiveCandidates ==
    pc = "done" => Paths(sampleFiles) = FirstFive(Paths(Candidates(fileStructure)))

\* C5 amended: at most five samples are returned, and they are the first five
\* candidates in pre-order among those whose content was fetched and decoded
\* (a candidate whose fetch failed is skipped and the next one takes its
\* place); when every fetch succeeds they are the first five candidates.
C5_FirstFiveFetchedCandidates ==
    pc = "done" =>
        /\ Len(sampleFiles) <= 5
        /\ Paths(sampleFiles) =
               FirstFive(Paths(SelectSeq(Candidates(fileStructure), Fetched)))
        /\ \A i \in 1..Len(sampleFiles) :
               sampleFiles[i].content = HostLookup(host, sampleFiles[i].path).content[2]

\* Seven candidates or more, all fetched, and the first five returned.
C5_Witness ==
    /\ pc = "done"
    /\ Len(Candidates(fileStructure)) >= 7
    /\ \A i \in 1..Len(Candidates(fileStructure)) : Fetched(Candidates(fileStructure)[i])
    /\ Paths(sampleFiles) = SubSeq(Paths(Candidates(fileStructure)), 1, 5)
    /\ sampleFiles[1].path # sampleFiles[2].path
    /\ Len(sampleFiles[2].path) > 1

\* C6: no directory node at nesting level 4 has children, whatever the host
\* holds below it, and no listing is requested at a depth above 3.
C6_DepthBound ==
    Walked =>
        /\ \A i \in 1..Len(PreOrder(fileStructure)) :
              LET n == PreOrder(fileStructure)[i]
              IN  /\ Len(n.path) <= 4
                  /\ (IsDirectory(n) /\ Len(n.path) = 4) => n.children = <<>>
        /\ \A i \in 1..Len(calls) :
              calls[i].kind = "listing" =>
                  (calls[i].depth <= 3 /\ calls[i].depth = Len(calls[i].path))

\* A level-4 directory node without children whose directory on the host is
\* not empty.
C6_Witness ==
    /\ Walked
    /\ \E i \in 1..Len(PreOrder(fileStructure)) :
          LET n == PreOrder(fileStructure)[i]
          IN  /\ IsDirectory(n)
              /\ Len(n.path) = 4
              /\ n.children = <<>>
              /\ HostLookup(host, n.path).resp.status = "ok"
              /\ HostLookup(host, n.path).resp.entries # <<>>
    /\ \E i \in 1..Len(calls) : calls[i].kind = "listing" /\ calls[i].depth = 3

\* The name of a directory the walker has to drop.
Dropped(name) == name[1] = "." \/ name = <<"node_modules">>

\* The directories a node lies in (and the node itself when a directory).
DirSegments(n) ==
    IF IsDirectory(n) THEN n.path ELSE SubSeq(n.path, 1, Len(n.path) - 1)

\* The files of the host that lie in no dropped directory, at any depth and
\* whatever the status of the listings.
RECURSIVE HostFilesOutsideDropped(_)
HostFilesOutsideDropped(resp) ==
    LET count[i \in 0..Len(resp.entries)] ==
            IF i = 0 THEN 0
            ELSE LET e == resp.entries[i]
                 IN  count[i - 1] +
                     (IF e.type = "file" THEN 1
                      ELSE IF e.type = "dir" /\ ~Dropped(e.name)
                      THEN HostFilesOutsideDropped(e.resp)
                      ELSE 0)
    IN  count[Len(resp.entries)]

\* C7: a directory whose name starts with '.' or is node_modules yields no
\* node, no listing is requested for it or below it, and no file below it is
\* counted in totalFiles.
C7_DirectoryExclusion ==
    Walked =>
        /\ \A i \in 1..Len(PreOrder(fileStructure)) :
              \A k \in 1..Len(DirSegments(PreOrder(fileStructure)[i])) :
                  ~Dropped(DirSegments(PreOrder(fileStructure)[i])[k])
        /\ \A i \in 1..Len(calls) :
              \A k \in 1..Len(calls[i].path) : ~Dropped(calls[i].path[k])
        /\ stats.totalFiles <= HostFilesOutsideDropped(host)
        /\ stats.totalFiles =
               Len(SelectSeq(PreOrder(fileStructure),
                       LAMBDA n : IsFile(n) /\ \A k \in 1..(Len(n.path) - 1) :
                                                 ~Dropped(n.path[k])))

\* A walk of a host whose root holds node_modules and a hidden directory with
\* files below them, while files outside them are counted.
C7_Witness ==
    /\ Walked
    /\ \E i, j \in 1..Len(host.entries) :
          /\ host.entries[i].name = <<"node_modules">>
          /\ host.entries[i].resp.entries # <<>>
          /\ host.entries[j].name = <<".", "git">>
    /\ stats.totalFiles = HostFilesOutsideDropped(host)
    /\ stats.totalFiles >= 3

FileCount(tree) == Len(SelectSeq(PreOrder(tree), IsFile))

\* C8: totalFiles is the number of file nodes at any depth of the tree, and
\* neither components nor pages exceeds it.
C8_StatsCounts ==
    Walked =>
        /\ stats.totalFiles = FileCount(fileStructure)
        /\ stats.components <= stats.totalFiles
        /\ stats.pages <= stats.totalFiles

\* A tree with nested files among which components and pages are counted.
C8_Witness ==
    /\ Walked
    /\ stats.totalFiles = FileCount(fileStructure)
    /\ stats.components >= 1
    /\ stats.pages >= 1
    /\ stats.components < stats.totalFiles
    /\ \E i \in 1..Len(fileStructure) :
          IsDirectory(fileStructure[i]) /\ fileStructure[i].children # <<>>

\* The names a listing of the host has to yield nodes for, in order.
ExpectedNames(resp) ==
    LET kept == SelectSeq(resp.entries,
                    LAMBDA e : e.type = "file" \/ (e.type = "dir" /\ ~Dropped(e.name)))
    IN  [i \in 1..Len(kept) |-> kept[i].name]

Names(nodes) == [i \in 1..Len(nodes) |-> nodes[i].name]

\* The children the tree holds at a path (the tree itself for the root).
RECURSIVE ChildrenAt(_, _)
ChildrenAt(tree, path) ==
    IF path = <<>> THEN tree
    ELSE LET hit == CHOOSE i \in 1..Len(tree) : tree[i].name = Head(path)
         IN  ChildrenAt(tree[hit].children, Tail(path))

HostRespAt(path) == IF path = <<>> THEN host ELSE HostLookup(host, path).resp

\* C9: a listing fetch that fails resolves that path to an empty sequence,
\* the walk does not fail, and every listing that succeeded still yields all
\* its nodes (the directory whose listing failed and its siblings included).
C9_FailedListingIsEmptySubtree ==
    /\ (pc = "failed" /\ calls # <<>>) => Last(calls).kind # "listing"
    /\ Walked =>
          \A i \in 1..Len(calls) :
              calls[i].kind = "listing" =>
                  IF calls[i].result = "ok"
                  THEN Names(ChildrenAt(fileStructure, calls[i].path))
                           = ExpectedNames(HostRespAt(calls[i].path))
                  ELSE ChildrenAt(fileStructure, calls[i].path) = <<>>

\* A rejected listing fetch of a subdirectory with entries, between siblings
\* that are in the tree.
C9_Witness ==
    /\ Walked
    /\ \E i \in 1..Len(calls) :
          /\ calls[i].kind = "listing"
          /\ calls[i].result = "neterr"
          /\ Len(calls[i].path) = 2
          /\ HostRespAt(calls[i].path).entries # <<>>
          /\ ChildrenAt(fileStructure, calls[i].path) = <<>>
          /\ LET siblings == ChildrenAt(fileStructure, SubSeq(calls[i].path, 1, 1))
             IN  /\ Len(siblings) >= 3
                 /\ siblings[1].name # calls[i].path[2]
                 /\ Last(siblings).name # calls[i].path[2]

(***************************************************************************)
(* The RepoAnalyzer component: handleAnalyze, resetAnalysis and the two    *)
(* inputs.  handleAnalyze is one action per stretch between two awaits;    *)
(* the awaited analyzeRepository and analyzeWithGemini are the actions     *)
(* above.  A user event is handled only while the run is suspended on a    *)
(* remote call or while no run is in flight.                               *)
(***************************************************************************)
UrlPrompt == <<"Please enter a GitHub repository URL">>
KeyPrompt == <<"Please enter your Gemini API key">>
FetchingNote == <<"Fetching repository data...">>
AnalyzingNote == <<"Analyzing code with Gemini AI...">>
CompletedNote == <<"Analysis completed successfully!">>

\* String.prototype.trim on a token sequence; " " is the whitespace token.
RECURSIVE TrimStart(_)
TrimStart(s) == IF s # <<>> /\ Head(s) = " " THEN TrimStart(Tail(s)) ELSE s

RECURSIVE TrimEnd(_)
TrimEnd(s) ==
    IF s # <<>> /\ Last(s) = " " THEN TrimEnd(SubSeq(s, 1, Len(s) - 1)) ELSE s

Trim(s) == TrimEnd(TrimStart(s))

\* What the user may type into the two inputs.
UiUrls == {<<>>, <<" ">>, <<"x">>, <<"github.com", "/", "x", "/", "x">>}
UiKeys == {<<>>, <<" ">>, <<"key">>}

\* The response texts the generative service answers a run with.
UiTexts == {<<"prose">>, <<"{", "'summary':'S'", "}">>}

\* The run is suspended on a remote call.
Suspended ==
    pc \in {"metadata", "contents", "languages", "walk", "samples", "gemini"}

\* The locals of a finished handleAnalyze invocation are gone.
RunLocalsCleared ==
    /\ host' = Unset
    /\ calls' = <<>>
    /\ languages' = <<>>
    /\ fileStructure' = <<>>
    /\ stats' = Unset
    /\ technologies' = <<>>
    /\ sampleFiles' = <<>>
    /\ outcome' = NoOutcome
    /\ analysisText' = <<>>
    /\ analysisResult' = NoAnalysis

RunLocalsUnchanged ==
    UNCHANGED <<host, calls, languages, fileStructure, stats, technologies,
                sampleFiles, outcome, analysisText, analysisResult>>

\* onChange of the repository input, disabled={isAnalyzing}
SetRepoUrl ==
    /\ ~ui.isAnalyzing
    /\ \E u \in UiUrls : repoUrl' = u
    /\ UNCHANGED <<pc, ui>>
    /\ RunLocalsUnchanged

\* onChange of the key input, disabled={isAnalyzing}
SetGeminiApiKey ==
    /\ ~ui.isAnalyzing
    /\ \E k \in UiKeys : ui' = [ui EXCEPT !.geminiApiKey = k]
    /\ UNCHANGED <<pc, repoUrl>>
    /\ RunLocalsUnchanged

\* onClick of the Analyze button, disabled={isAnalyzing}: handleAnalyze up to
\* the call of analyzeRepository.
handleAnalyze ==
    /\ ~ui.isAnalyzing
    /\ pc = "idle"
    /\ IF Trim(repoUrl) = <<>>
       THEN /\ ui' = [ui EXCEPT !.toast = Toast("error", UrlPrompt)]
            /\ pc' = pc
       ELSE IF Trim(ui.geminiApiKey) = <<>>
       THEN /\ ui' = [ui EXCEPT !.toast = Toast("error", KeyPrompt)]
            /\ pc' = pc
       ELSE /\ ui.run < MaxRuns
            /\ ui' = [ui EXCEPT !.isAnalyzing = TRUE,
                                !.error = NoError,
                                !.analysisProgress = 25,
                                !.toast = Toast("info", FetchingNote),
                                !.run = @ + 1]
            /\ pc' = "start"
    /\ UNCHANGED repoUrl
    /\ RunLocalsUnchanged

\* const data = await analyzeRepository(repoUrl) returned: setRepoData(data),
\* then handleAnalyze up to the request of analyzeWithGemini.
AfterRepository ==
    /\ pc = "done"
    /\ pc' = "gemini"
    /\ ui' = [ui EXCEPT !.repoData = [run |-> ui.run],
                        !.analysisProgress = 50,
                        !.toast = Toast("info", AnalyzingNote)]
    /\ \E text \in UiTexts : analysisText' = text
    /\ UNCHANGED <<repoUrl, host, calls, languages, fileStructure, stats,
                   technologies, sampleFiles, outcome, analysisResult>>

\* const analysis = await analyzeWithGemini(data, geminiApiKey) returned:
\* setAnalysisResult(analysis), then the finally block.
AfterGemini ==
    /\ pc = "analyzed"
    /\ pc' = "idle"
    /\ ui' = [ui EXCEPT !.analysisResult =
                            [run |-> ui.run, value |-> analysisResult.value],
                        !.analysisProgress = 100,
                        !.toast = Toast("success", CompletedNote),
                        !.isAnalyzing = FALSE]
    /\ RunLocalsCleared
    /\ UNCHANGED repoUrl

\* The message of the error one of the two awaits threw.
ThrownMessage ==
    IF analysisResult.kind = "error" THEN analysisResult.message
    ELSE outcome.message

\* catch (err) { setError(errorMessage); toast.error(errorMessage) }, then
\* the finally block.
CatchAnalyze ==
    /\ pc = "failed"
    /\ pc' = "idle"
    /\ ui' = [ui EXCEPT !.error = ThrownMessage,
                        !.toast = Toast("error", ThrownMessage),
                        !.isAnalyzing = FALSE]
    /\ RunLocalsCleared
    /\ UNCHANGED repoUrl

\* onClick of the New Analysis button, rendered when (repoData ||
\* analysisResult); the button has no disabled attribute.
resetAnalysis ==
    /\ pc = "idle" \/ Suspended
    /\ ui.repoData # NoData \/ ui.analysisResult # NoResult
    /\ ui' = [ui EXCEPT !.repoData = NoData,
                        !.analysisResult = NoResult,
                        !.error = NoError,
                        !.analysisProgress = 0]
    /\ UNCHANGED <<pc, repoUrl>>
    /\ RunLocalsUnchanged

InitUI ==
    /\ repoUrl = <<>>
    /\ pc = "idle"
    /\ host = Unset
    /\ calls = <<>>
    /\ languages = <<>>
    /\ fileStructure = <<>>
    /\ stats = Unset
    /\ technologies = <<>>
    /\ sampleFiles = <<>>
    /\ outcome = NoOutcome
    /\ analysisText = <<>>
    /\ analysisResult = NoAnalysis
    /\ ui = UiInit

NextUI ==
    \/ SetRepoUrl
    \/ SetGeminiApiKey
    \/ handleAnalyze
    \/ ParseUrl
    \/ FetchMetadata
    \/ FetchContents
    \/ FetchLanguages
    \/ Walk
    \/ Samples
    \/ AfterRepository
    \/ AnalyzeWithGemini
    \/ AfterGemini
    \/ CatchAnalyze
    \/ resetAnalysis

SpecUI == InitUI /\ [][NextUI]_vars

\* {repoData && (...)}: the repository snapshot is rendered.
SnapshotShown == ui.repoData # NoData

\* {analysisResult && (...)} inside the repoData block: the analysis is
\* rendered.
AnalysisShown == SnapshotShown /\ ui.analysisResult # NoResult

\* {error && (...)}: the error alert is rendered.
ErrorShown == ui.error # NoError

\* C13 as stated: following an abort of handleAnalyze (the error of its catch
\* branch is still held) no repository snapshot and no analysis result is
\* held or rendered.
C13_NothingShownAfterAbort ==
    ErrorShown =>
        /\ ui.repoData = NoData
        /\ ui.analysisResult = NoResult

\* C14 as stated: while a handleAnalyze run is in flight no second run starts
\* and no user action changes the component state.  The steps of the run
\* itself all move pc, so a step that leaves pc alone is a user action; every
\* run in flight ends by writing its result or its error, so a user action
\* that changed the state is followed by the run writing into that state.
C14_SingleOutstanding ==
    [][ui.isAnalyzing =>
          /\ ui'.run = ui.run
          /\ (pc' = pc => ui' = ui)]_vars

\* The kinds of remote call in the order the claim states them, and in the
\* order with the request of the root contents.
StatedOrder == <<"metadata", "languages", "listing", "sample", "gemini">>
OrderWithContents ==
    <<"metadata", "contents", "languages", "listing", "sample", "gemini">>

\* The position of a kind in an order, 0 when the order does not have it.
RankIn(order, kind) ==
    IF \E i \in 1..Len(order) : order[i] = kind
    THEN CHOOSE i \in 1..Len(order) : order[i] = kind
    ELSE 0

\* Calls of these kinds are made by the walker and the sampler, one per
\* directory or file; of every other kind a run makes one call.
Repeatable(kind) == kind \in {"listing", "sample"}

\* The calls of the run so far follow the order: the first call is the first
\* of the order, every call is of a kind of the order, and the call after a
\* call is of the same kind (listings and sample fetches only) or of the next
\* kind, where the sample fetches may be none.
CallsFollow(order) ==
    LET rank(i) == RankIn(order, calls[i].kind)
    IN  /\ \A i \in 1..Len(calls) : rank(i) > 0
        /\ calls # <<>> => rank(1) = 1
        /\ \A i \in 1..(Len(calls) - 1) :
              \/ rank(i + 1) = rank(i) /\ Repeatable(calls[i].kind)
              \/ rank(i + 1) = rank(i) + 1
              \/ calls[i].kind = "listing" /\ calls[i + 1].kind = "gemini"

\* The walk starts from the root at depth 0.
WalkFromRoot ==
    \A i \in 1..Len(calls) :
        (calls[i].kind = "listing" /\ (i = 1 \/ calls[i - 1].kind # "listing"))
            => calls[i].path = <<>> /\ calls[i].depth = 0

\* The request to the generative service is made once analyzeRepository has
\* returned its snapshot.
GeminiAfterSnapshot ==
    \A i \in 1..Len(calls) :
        calls[i].kind = "gemini" => i = Len(calls) /\ outcome = Returned

\* C15 as stated: the remote calls of a run are made in the order metadata,
\* languages, listings from the root at depth 0, sample contents, with no
\* other remote call between them, and the request to the generative service
\* comes after the snapshot is built.
C15_StatedCallOrder ==
    /\ CallsFollow(StatedOrder)
    /\ WalkFromRoot
    /\ GeminiAfterSnapshot

\* C15, amended: the remote calls of a run are made in the order metadata,
\* root contents, languages, listings from the root at depth 0, sample
\* contents; a call after the metadata or the contents call is made only if
\* that call succeeded; the request to the generative service comes after the
\* snapshot is built.
C15_CallOrderWithContents ==
    /\ CallsFollow(OrderWithContents)
    /\ \A i \in 1..(Len(calls) - 1) :
          calls[i].kind \in {"metadata", "contents"} => calls[i].result = "ok"
    /\ WalkFromRoot
    /\ GeminiAfterSnapshot

\* A run made calls of all six kinds and its analysis returned.
C15_Witness ==
    /\ pc = "analyzed"
    /\ \A k \in 1..Len(OrderWithContents) :
          \E i \in 1..Len(calls) : calls[i].kind = OrderWithContents[k]
    /\ \E i \in 2..Len(calls) :
          calls[i].kind = "listing" /\ calls[i - 1].kind = "listing"

\* C16 as stated: whenever no run is in flight and the component holds both a
\* snapshot and an analysis, the analysis was produced by the handleAnalyze
\* run that produced the snapshot.
C16_AnalysisOfDisplayedSnapshot ==
    (~ui.isAnalyzing /\ ui.repoData # NoData /\ ui.analysisResult # NoResult)
        => ui.analysisResult.run = ui.repoData.run

====
